---- MODULE Spec2Model ----
(***************************************************************************)
(* SceneManager (Source/SceneManager.cpp): the texture registry, the       *)
(* material registry, the shader-parameter pushes and the fixed render     *)
(* sequence of the 3D scene.                                               *)
(*                                                                         *)
(* Every float literal of the source is kept as a fixed-point integer in   *)
(* hundredths (0.3f is 30, -7.5f is -750, 12.0 is 1200): no literal of the *)
(* source has more than two decimals.                                      *)
(***************************************************************************)
EXTENDS Integers, Sequences, FiniteSets, TLC

VARIABLES
    m_pShaderManager,   \* "valid" or "NULL"
    m_basicMeshes,      \* the pointer, and the ShapeMeshes object: mesh kind -> number of LoadXMesh calls
    m_textureIDs,       \* the array of 16 {tag, ID} entries, indexed 0..15
    m_loadedTextures,   \* number of registered textures
    m_objectMaterials,  \* std::vector<OBJECT_MATERIAL>
    gl,                 \* the OpenGL texture state the class acts on
    shader,             \* the uniforms held by the shader program, by name
    pc,                 \* which method of the object's life is running
    ip,                 \* the position inside that method
    frame,              \* number of RenderScene calls begun
    frameOps,           \* the calls RenderScene has issued in the current frame
    prevFrameOps,       \* the calls the previous RenderScene issued
    loadLog,            \* history: each CreateGLTexture call, its result and what it assigned
    ret,                \* the last call made on the object and what it returned
    ub                  \* the program has executed undefined behaviour

vars == <<m_pShaderManager, m_basicMeshes, m_textureIDs, m_loadedTextures,
          m_objectMaterials, gl, shader, pc, ip, frame, frameOps, prevFrameOps,
          loadLog, ret, ub>>

-----------------------------------------------------------------------------
(* Bounds of the model *)

\* RenderScene calls per run
MaxFrames == 2
\* CreateGLTexture calls per run of the texture registry specification
MaxLoads == 3
\* shader-parameter calls per run of the material specification
MaxShaderCalls == 2
\* DefineObjectMaterials calls per run of the material specification
MaxDefines == 2
\* loads with an unsupported channel count per run of the capacity specification
MaxBadLoads == 2
\* SetTransformations calls per run of the transform specification
MaxTransforms == 1

(* Program constants *)

\* size of m_textureIDs: for (int i = 0; i < 16; i++)
TextureSlots == 16

-----------------------------------------------------------------------------
(* Inputs *)

\* what stbi_load gives for a file: no image, or an image of 1..4 channels
Images ==
    {[ok |-> FALSE, channels |-> 0]} \cup {[ok |-> TRUE, channels |-> c] : c \in 1..4}

\* the tags LoadSceneTextures registers, in load order
SceneTextures == <<"marble", "face", "body", "arm", "leg", "can">>

\* tags a caller of the texture registry uses
TextureTags == {"marble", "glass", "can"}

\* tags a caller of the material registry asks for
MaterialTags == {"plastic", "metal", "cloth", "glass", "matteFinish", "wood", "marble"}

\* the mesh kinds of ShapeMeshes this class loads or draws
MeshKinds ==
    {"Box", "Plane", "Cylinder", "Cone", "Prism", "Pyramid4", "Sphere",
     "TaperedCylinder", "Torus", "HalfTorus"}

\* arguments a caller of SetTransformations passes: scales (one of them
\* degenerate), angles in degrees that are multiples of 90, positions
Scales == { <<100, 100, 100>>, <<200, 50, 100>>, <<0, 0, 0>> }
RightAngles == { -9000, 0, 9000, 18000 }
Positions == { <<0, 0, 0>>, <<1000, -100, 300>> }

NoMaterial ==
    [tag |-> "", ambientColor |-> <<0, 0, 0>>, ambientStrength |-> 0,
     diffuseColor |-> <<0, 0, 0>>, specularColor |-> <<0, 0, 0>>, shininess |-> 0]

\* an OBJECT_MATERIAL that was declared and never assigned holds indeterminate
\* values: any of these
IndeterminateMaterials ==
    {[tag |-> "", ambientColor |-> <<g, g, g>>, ambientStrength |-> g,
      diffuseColor |-> <<g, g, g>>, specularColor |-> <<g, g, g>>, shininess |-> g]
        : g \in {0, 77}}

NoRet == [op |-> "", tag |-> "", ok |-> FALSE, val |-> 0, img |-> [ok |-> FALSE, channels |-> 0],
          material |-> NoMaterial]

Ret(op, tag, ok, val) == [NoRet EXCEPT !.op = op, !.tag = tag, !.ok = ok, !.val = val]

-----------------------------------------------------------------------------
(* The shader program's uniforms, written through ShaderManager's setters *)

\* what a uniform holds: an int, bool, float or sampler in int, a vector in
\* vec, a 4x4 matrix in mat. A uniform never set holds NoValue.
NoValue == [int |-> 0, vec |-> <<>>, mat |-> <<>>]

\* one call of a ShaderManager setter
SetInt(name, v) == [fn |-> "setIntValue", name |-> name, val |-> [NoValue EXCEPT !.int = v]]
SetBool(name, v) == [fn |-> "setBoolValue", name |-> name, val |-> [NoValue EXCEPT !.int = v]]
SetFloat(name, v) == [fn |-> "setFloatValue", name |-> name, val |-> [NoValue EXCEPT !.int = v]]
SetSampler2D(name, v) ==
    [fn |-> "setSampler2DValue", name |-> name, val |-> [NoValue EXCEPT !.int = v]]
SetVec2(name, v) == [fn |-> "setVec2Value", name |-> name, val |-> [NoValue EXCEPT !.vec = v]]
SetVec3(name, v) == [fn |-> "setVec3Value", name |-> name, val |-> [NoValue EXCEPT !.vec = v]]
SetVec4(name, v) == [fn |-> "setVec4Value", name |-> name, val |-> [NoValue EXCEPT !.vec = v]]
SetMat4(name, m) == [fn |-> "setMat4Value", name |-> name, val |-> [NoValue EXCEPT !.mat = m]]

\* the uniforms after the setter calls ps, made in order on the uniforms s
RECURSIVE ApplyPushes(_, _)
ApplyPushes(s, ps) ==
    IF ps = <<>> THEN s
    ELSE ApplyPushes([s EXCEPT ![Head(ps).name] = Head(ps).val], Tail(ps))

\* the setter calls of SetupSceneLights, in order
LightPushes ==
    << SetBool("bUseLighting", 1),
       SetVec3("lightSources[0].position", <<775, 1000, -1775>>),
       SetVec3("lightSources[0].ambientColor", <<10, 10, 10>>),
       SetVec3("lightSources[0].diffuseColor", <<50, 50, 50>>),
       SetVec3("lightSources[0].specularColor", <<40, 40, 40>>),
       SetFloat("lightSources[0].focalStrength", 3200),
       SetFloat("lightSources[0].specularIntensity", 70),
       SetVec3("lightSources[1].position", <<1300, 1000, 600>>),
       SetVec3("lightSources[1].ambientColor", <<0, 0, 0>>),
       SetVec3("lightSources[1].diffuseColor", <<50, 50, 50>>),
       SetVec3("lightSources[1].specularColor", <<20, 20, 20>>),
       SetFloat("lightSources[1].focalStrength", 3200),
       SetFloat("lightSources[1].specularIntensity", 20),
       SetVec3("lightSources[2].position", <<-2000, 1000, 200>>),
       SetVec3("lightSources[2].ambientColor", <<0, 0, 0>>),
       SetVec3("lightSources[2].diffuseColor", <<0, 0, 0>>),
       SetVec3("lightSources[2].specularColor", <<0, 0, 0>>),
       SetFloat("lightSources[2].focalStrength", 1200),
       SetFloat("lightSources[2].specularIntensity", 20),
       SetVec3("lightSources[3].position", <<0, 3200, 3200>>),
       SetVec3("lightSources[3].ambientColor", <<20, 20, 20>>),
       SetVec3("lightSources[3].diffuseColor", <<50, 50, 50>>),
       SetVec3("lightSources[3].specularColor", <<60, 60, 10>>),
       SetFloat("lightSources[3].focalStrength", 300),
       SetFloat("lightSources[3].specularIntensity", 50) >>

\* the names of the uniforms this class writes
UniformNames ==
    {"model", "objectColor", "objectTexture", "bUseTexture", "UVscale",
     "material.ambientColor", "material.ambientStrength", "material.diffuseColor",
     "material.specularColor", "material.shininess"}
        \cup {LightPushes[i].name : i \in 1..Len(LightPushes)}

-----------------------------------------------------------------------------
(* SceneManager::SceneManager *)

Init ==
    /\ m_pShaderManager \in {"valid", "NULL"}
    /\ m_basicMeshes = [ptr |-> "valid", loads |-> [k \in MeshKinds |-> 0]]
    /\ m_textureIDs = [i \in 0..(TextureSlots - 1) |-> [tag |-> "/0", ID |-> -1]]
    /\ m_loadedTextures = 0
    /\ m_objectMaterials = <<>>
    /\ gl = [generated |-> 0, deleted |-> {}, activeUnit |-> 0,
             units |-> [u \in 0..(TextureSlots - 1) |-> 0], images |-> 0]
    /\ shader = [n \in UniformNames |-> NoValue]
    /\ pc = "Constructed"
    /\ ip = 0
    /\ frame = 0
    /\ frameOps = <<>>
    /\ prevFrameOps = <<>>
    /\ loadLog = <<>>
    /\ ret = NoRet
    /\ ub = FALSE

-----------------------------------------------------------------------------
(* Texture registry *)

\* SupportedChannels with the else branch lost: every decoded image is uploaded
AnyChannelCount(colorChannels) == colorChannels >= 1

\* the channel counts CreateGLTexture uploads (GL_RGB8, GL_RGBA8); any other
\* count takes the else branch and returns false
SupportedChannels(colorChannels) == colorChannels = 3 \/ colorChannels = 4

\* CreateGLTexture(filename, tag); img is what stbi_load returns for filename.
\* glGenTextures hands out the next unused name; glBindTexture binds on the
\* active texture unit.
CreateGLTexture(img, tag) ==
    IF img.ok
    THEN LET textureID == gl.generated + 1
             bound == [gl EXCEPT !.generated = textureID,
                                 !.units[gl.activeUnit] = textureID,
                                 !.images = @ + 1]
         IN  IF SupportedChannels(img.channels)
             THEN \* glTexImage2D, glGenerateMipmap, stbi_image_free, unbind
                  /\ gl' = [bound EXCEPT !.images = @ - 1, !.units[gl.activeUnit] = 0]
                  /\ IF m_loadedTextures \in 0..(TextureSlots - 1)
                     THEN /\ m_textureIDs' =
                                [m_textureIDs EXCEPT ![m_loadedTextures] =
                                    [tag |-> tag, ID |-> textureID]]
                          /\ m_loadedTextures' = m_loadedTextures + 1
                          /\ loadLog' = Append(loadLog,
                                [tag |-> tag, ok |-> TRUE, slot |-> m_loadedTextures,
                                 ID |-> textureID])
                          /\ ret' = [Ret("CreateGLTexture", tag, TRUE, m_loadedTextures)
                                        EXCEPT !.img = img]
                          /\ ub' = ub
                     ELSE \* m_textureIDs[m_loadedTextures] is outside the array: the
                          \* write lands on whatever follows it. The call may crash
                          \* there or go on to the increment.
                          /\ m_textureIDs' = m_textureIDs
                          /\ \E went \in BOOLEAN :
                                /\ m_loadedTextures' =
                                      IF went THEN m_loadedTextures + 1 ELSE m_loadedTextures
                                /\ ret' = [Ret("CreateGLTexture", tag, went, m_loadedTextures)
                                              EXCEPT !.img = img]
                                /\ loadLog' = Append(loadLog,
                                      [tag |-> tag, ok |-> went, slot |-> m_loadedTextures,
                                       ID |-> textureID])
                          /\ ub' = TRUE
             ELSE \* "Not implemented to handle image with N channels": return false
                  /\ gl' = bound
                  /\ ret' = [Ret("CreateGLTexture", tag, FALSE, -1) EXCEPT !.img = img]
                  /\ loadLog' = Append(loadLog, [tag |-> tag, ok |-> FALSE, slot |-> -1, ID |-> -1])
                  /\ UNCHANGED <<m_textureIDs, m_loadedTextures, ub>>
    ELSE \* "Could not load image"
         /\ ret' = [Ret("CreateGLTexture", tag, FALSE, -1) EXCEPT !.img = img]
         /\ loadLog' = Append(loadLog, [tag |-> tag, ok |-> FALSE, slot |-> -1, ID |-> -1])
         /\ UNCHANGED <<m_textureIDs, m_loadedTextures, gl, ub>>

\* the loop of BindGLTextures without its glActiveTexture call: every texture
\* is bound on the unit that was active on entry
RECURSIVE BindFromOneUnit(_, _)
BindFromOneUnit(i, g) ==
    IF i < m_loadedTextures
    THEN BindFromOneUnit(i + 1, [g EXCEPT !.units[g.activeUnit] = m_textureIDs[i].ID])
    ELSE g

\* the loop of BindGLTextures from index i on, over GL state g
RECURSIVE BindFrom(_, _)
BindFrom(i, g) ==
    IF i < m_loadedTextures
    THEN BindFrom(i + 1, [g EXCEPT !.activeUnit = i, !.units[i] = m_textureIDs[i].ID])
    ELSE g

BindGLTextures == gl' = BindFrom(0, gl)

\* the loop of DestroyGLTextures from index i on: glGenTextures(1, &m_textureIDs[i].ID)
RECURSIVE DestroyFrom(_, _)
DestroyFrom(i, st) ==
    IF i < m_loadedTextures
    THEN DestroyFrom(i + 1,
            [ids |-> [st.ids EXCEPT ![i].ID = st.gl.generated + 1],
             gl  |-> [st.gl EXCEPT !.generated = @ + 1]])
    ELSE st

DestroyGLTextures ==
    LET st == DestroyFrom(0, [ids |-> m_textureIDs, gl |-> gl])
    IN  /\ m_textureIDs' = st.ids
        /\ gl' = st.gl

\* the while loop of FindTextureID, entered at index
RECURSIVE FindTextureIDFrom(_, _)
FindTextureIDFrom(index, tag) ==
    IF index < m_loadedTextures
    THEN IF m_textureIDs[index].tag = tag
         THEN m_textureIDs[index].ID
         ELSE FindTextureIDFrom(index + 1, tag)
    ELSE -1

FindTextureID(tag) == FindTextureIDFrom(0, tag)

\* the while loop of FindTextureSlot, entered at index
RECURSIVE FindTextureSlotFrom(_, _)
FindTextureSlotFrom(index, tag) ==
    IF index < m_loadedTextures
    THEN IF m_textureIDs[index].tag = tag
         THEN index
         ELSE FindTextureSlotFrom(index + 1, tag)
    ELSE -1

\* FindTextureSlot with the loop not stopping at the first match: the last
\* matching slot is returned
FindTextureSlotLast(tag) ==
    LET hits == {i \in 0..(m_loadedTextures - 1) : m_textureIDs[i].tag = tag}
    IN  IF hits = {} THEN -1 ELSE CHOOSE i \in hits : \A j \in hits : j <= i

\* FindTextureSlot with textureSlot initialised to 0 instead of -1
FindTextureSlotOrZero(tag) ==
    IF FindTextureSlotFrom(0, tag) = -1 THEN 0 ELSE FindTextureSlotFrom(0, tag)

FindTextureSlot(tag) == FindTextureSlotFrom(0, tag)

-----------------------------------------------------------------------------
(* Material registry *)

\* the five materials DefineObjectMaterials pushes back, in order
SceneMaterials ==
    << [tag |-> "plastic", ambientColor |-> <<20, 20, 20>>, ambientStrength |-> 30,
        diffuseColor |-> <<20, 20, 20>>, specularColor |-> <<40, 40, 40>>, shininess |-> 1200],
       [tag |-> "metal", ambientColor |-> <<20, 20, 20>>, ambientStrength |-> 30,
        diffuseColor |-> <<20, 20, 20>>, specularColor |-> <<50, 50, 50>>, shininess |-> 2200],
       [tag |-> "cloth", ambientColor |-> <<10, 10, 10>>, ambientStrength |-> 20,
        diffuseColor |-> <<30, 30, 30>>, specularColor |-> <<10, 10, 10>>, shininess |-> 30],
       [tag |-> "glass", ambientColor |-> <<40, 40, 40>>, ambientStrength |-> 30,
        diffuseColor |-> <<30, 30, 30>>, specularColor |-> <<60, 60, 60>>, shininess |-> 8500],
       [tag |-> "matteFinish", ambientColor |-> <<20, 20, 20>>, ambientStrength |-> 20,
        diffuseColor |-> <<10, 10, 10>>, specularColor |-> <<0, 0, 0>>, shininess |-> 0] >>

DefineObjectMaterials == m_objectMaterials' = m_objectMaterials \o SceneMaterials

\* the while loop of FindMaterial, entered at index (0-based, as in the source);
\* material is the caller's object, which a match overwrites field by field
RECURSIVE FindMaterialFrom(_, _, _)
FindMaterialFrom(index, tag, material) ==
    IF index < Len(m_objectMaterials)
    THEN IF m_objectMaterials[index + 1].tag = tag
         THEN [material EXCEPT
                 !.ambientColor = m_objectMaterials[index + 1].ambientColor,
                 !.ambientStrength = m_objectMaterials[index + 1].ambientStrength,
                 !.diffuseColor = m_objectMaterials[index + 1].diffuseColor,
                 !.specularColor = m_objectMaterials[index + 1].specularColor,
                 !.shininess = m_objectMaterials[index + 1].shininess]
         ELSE FindMaterialFrom(index + 1, tag, material)
    ELSE material

\* FindMaterial(tag, material&): the returned bool and the caller's object after
\* the call. The loop's bFound is not what the method returns.
FindMaterial(tag, material) ==
    IF Len(m_objectMaterials) = 0
    THEN [ret |-> FALSE, material |-> material]
    ELSE [ret |-> TRUE, material |-> FindMaterialFrom(0, tag, material)]

-----------------------------------------------------------------------------
(* Shader-parameter methods. Each appends the call to frameOps with the       *)
(* setter calls it made, and applies those to the shader's uniforms.          *)

Call(op, tag, args) == [op |-> op, tag |-> tag, args |-> args]

Issue(call, pushes) ==
    /\ shader' = ApplyPushes(shader, pushes)
    /\ frameOps' = Append(frameOps, [call |-> call, pushes |-> pushes])
    /\ ub' = ub

\* a call through a null pointer: the program is gone
NullCall(call) ==
    /\ frameOps' = Append(frameOps, [call |-> call, pushes |-> <<>>])
    /\ ub' = TRUE
    /\ UNCHANGED shader

\* glm::scale, glm::rotate(glm::radians(degrees), axis), glm::translate, kept as
\* named factors, and operator* as the ordered product of the factors
GlmScale(v) == << [k |-> "scale", v |-> v] >>
GlmRotate(degrees, axis) == << [k |-> "rotate", v |-> <<degrees>> \o axis] >>
GlmTranslate(v) == << [k |-> "translate", v |-> v] >>
MatMul(a, b) == a \o b

\* The value of a glm::mat4: its four rows, entries in hundredths. The
\* arithmetic is exact where every cosine and sine is 0, 1 or -1, that is for
\* angles that are whole multiples of 90 degrees.
Identity4 ==
    << <<100, 0, 0, 0>>, <<0, 100, 0, 0>>, <<0, 0, 100, 0>>, <<0, 0, 0, 100>> >>

\* glm::mat4 operator*: row i of a against column j of b
Mul4(a, b) ==
    LET e(i, j) ==
            (a[i][1] * b[1][j] + a[i][2] * b[2][j] + a[i][3] * b[3][j] + a[i][4] * b[4][j])
                \div 100
        row(i) == << e(i, 1), e(i, 2), e(i, 3), e(i, 4) >>
    IN  << row(1), row(2), row(3), row(4) >>

\* cos and sin of glm::radians(degrees), degrees a multiple of 90.00
Cos100(degrees) == << 100, 0, -100, 0 >>[((degrees % 36000) \div 9000) + 1]
Sin100(degrees) == << 0, 100, 0, -100 >>[((degrees % 36000) \div 9000) + 1]

\* glm::scale(v)
Scale4(v) ==
    << <<v[1], 0, 0, 0>>, <<0, v[2], 0, 0>>, <<0, 0, v[3], 0>>, <<0, 0, 0, 100>> >>

\* glm::translate(v)
Translate4(v) ==
    << <<100, 0, 0, v[1]>>, <<0, 100, 0, v[2]>>, <<0, 0, 100, v[3]>>, <<0, 0, 0, 100>> >>

\* glm::rotate(angle, axis), axis of unit length: c + (1-c) a a^T + s [a]x
Rotate4(degrees, axis) ==
    LET c == Cos100(degrees)
        s == Sin100(degrees)
        temp == << ((100 - c) * axis[1]) \div 100, ((100 - c) * axis[2]) \div 100,
                   ((100 - c) * axis[3]) \div 100 >>
        sa == << (s * axis[1]) \div 100, (s * axis[2]) \div 100, (s * axis[3]) \div 100 >>
        ta(i, j) == (temp[i] * axis[j]) \div 100
    IN  << << c + ta(1, 1),     ta(2, 1) - sa[3], ta(3, 1) + sa[2], 0 >>,
           << ta(1, 2) + sa[3], c + ta(2, 2),     ta(3, 2) - sa[1], 0 >>,
           << ta(1, 3) - sa[2], ta(2, 3) + sa[1], c + ta(3, 3),     0 >>,
           << 0, 0, 0, 100 >> >>

\* the matrix a named factor stands for
FactorValue(f) ==
    CASE f.k = "scale" -> Scale4(f.v)
      [] f.k = "rotate" -> Rotate4(f.v[1], <<f.v[2], f.v[3], f.v[4]>>)
      [] f.k = "translate" -> Translate4(f.v)

\* the matrix an ordered product of factors evaluates to, multiplied left to
\* right as a * b * c * d * e is
RECURSIVE MatValueFrom(_, _)
MatValueFrom(acc, factors) ==
    IF factors = <<>> THEN acc
    ELSE MatValueFrom(Mul4(acc, FactorValue(Head(factors))), Tail(factors))

MatValue(factors) == MatValueFrom(Identity4, factors)

\* SetTransformations with the product taken in the opposite order:
\* scale * rotationZ * rotationY * rotationX * translation
SetTransformationsReversed(scaleXYZ, XrotationDegrees, YrotationDegrees, ZrotationDegrees, positionXYZ) ==
    LET scale == GlmScale(scaleXYZ)
        rotationX == GlmRotate(XrotationDegrees, <<100, 0, 0>>)
        rotationY == GlmRotate(YrotationDegrees, <<0, 100, 0>>)
        rotationZ == GlmRotate(ZrotationDegrees, <<0, 0, 100>>)
        translation == GlmTranslate(positionXYZ)
        modelView ==
            MatMul(MatMul(MatMul(MatMul(scale, rotationZ), rotationY), rotationX), translation)
        call == Call("SetTransformations", "",
                     <<scaleXYZ, <<XrotationDegrees, YrotationDegrees, ZrotationDegrees>>,
                       positionXYZ>>)
    IN  IF m_pShaderManager # "NULL"
        THEN Issue(call, << SetMat4("model", modelView) >>)
        ELSE Issue(call, <<>>)

\* SetTransformations with the rotations multiplied Z first:
\* translation * rotationZ * rotationY * rotationX * scale
SetTransformationsZYX(scaleXYZ, XrotationDegrees, YrotationDegrees, ZrotationDegrees, positionXYZ) ==
    LET scale == GlmScale(scaleXYZ)
        rotationX == GlmRotate(XrotationDegrees, <<100, 0, 0>>)
        rotationY == GlmRotate(YrotationDegrees, <<0, 100, 0>>)
        rotationZ == GlmRotate(ZrotationDegrees, <<0, 0, 100>>)
        translation == GlmTranslate(positionXYZ)
        modelView ==
            MatMul(MatMul(MatMul(MatMul(translation, rotationZ), rotationY), rotationX), scale)
        call == Call("SetTransformations", "",
                     <<scaleXYZ, <<XrotationDegrees, YrotationDegrees, ZrotationDegrees>>,
                       positionXYZ>>)
    IN  IF m_pShaderManager # "NULL"
        THEN Issue(call, << SetMat4("model", modelView) >>)
        ELSE Issue(call, <<>>)

SetTransformations(scaleXYZ, XrotationDegrees, YrotationDegrees, ZrotationDegrees, positionXYZ) ==
    LET scale == GlmScale(scaleXYZ)
        rotationX == GlmRotate(XrotationDegrees, <<100, 0, 0>>)
        rotationY == GlmRotate(YrotationDegrees, <<0, 100, 0>>)
        rotationZ == GlmRotate(ZrotationDegrees, <<0, 0, 100>>)
        translation == GlmTranslate(positionXYZ)
        modelView ==
            MatMul(MatMul(MatMul(MatMul(translation, rotationX), rotationY), rotationZ), scale)
        call == Call("SetTransformations", "",
                     <<scaleXYZ, <<XrotationDegrees, YrotationDegrees, ZrotationDegrees>>,
                       positionXYZ>>)
    IN  IF m_pShaderManager # "NULL"
        THEN Issue(call, << SetMat4("model", modelView) >>)
        ELSE Issue(call, <<>>)

\* SetShaderColor without its setIntValue(g_UseTextureName, false)
SetShaderColorKeepsMode(currentColor) ==
    LET call == Call("SetShaderColor", "", <<currentColor>>)
    IN  IF m_pShaderManager # "NULL"
        THEN Issue(call, << SetVec4("objectColor", currentColor) >>)
        ELSE Issue(call, <<>>)

SetShaderColor(currentColor) ==
    LET call == Call("SetShaderColor", "", <<currentColor>>)
    IN  IF m_pShaderManager # "NULL"
        THEN Issue(call, << SetInt("bUseTexture", 0), SetVec4("objectColor", currentColor) >>)
        ELSE Issue(call, <<>>)

\* SetShaderTexture handing out the sampler from a counter that advances with
\* every frame, instead of the registered slot alone
SetShaderTextureCounting(textureTag) ==
    LET call == Call("SetShaderTexture", textureTag, <<>>)
    IN  IF m_pShaderManager # "NULL"
        THEN LET textureID == FindTextureSlot(textureTag)
             IN  Issue(call, << SetInt("bUseTexture", 1),
                                SetSampler2D("objectTexture", textureID + frame) >>)
        ELSE Issue(call, <<>>)

SetShaderTexture(textureTag) ==
    LET call == Call("SetShaderTexture", textureTag, <<>>)
    IN  IF m_pShaderManager # "NULL"
        THEN LET textureID == FindTextureSlot(textureTag)
             IN  Issue(call, << SetInt("bUseTexture", 1),
                                SetSampler2D("objectTexture", textureID) >>)
        ELSE Issue(call, <<>>)

SetTextureUVScale(uv) ==
    LET call == Call("SetTextureUVScale", "", <<uv>>)
    IN  IF m_pShaderManager # "NULL"
        THEN Issue(call, << SetVec2("UVscale", uv) >>)
        ELSE Issue(call, <<>>)

\* the local OBJECT_MATERIAL material is declared without a value
SetShaderMaterial(materialTag) ==
    LET call == Call("SetShaderMaterial", materialTag, <<>>)
    IN  IF Len(m_objectMaterials) > 0
        THEN \E declared \in IndeterminateMaterials :
                LET found == FindMaterial(materialTag, declared)
                    material == found.material
                IN  IF found.ret = TRUE
                    THEN IF m_pShaderManager # "NULL"
                         THEN Issue(call,
                                << SetVec3("material.ambientColor", material.ambientColor),
                                   SetFloat("material.ambientStrength", material.ambientStrength),
                                   SetVec3("material.diffuseColor", material.diffuseColor),
                                   SetVec3("material.specularColor", material.specularColor),
                                   SetFloat("material.shininess", material.shininess) >>)
                         ELSE NullCall(call)
                    ELSE Issue(call, <<>>)
        ELSE Issue(call, <<>>)

\* m_basicMeshes->DrawXMesh()
DrawMesh(kind) ==
    LET call == Call("DrawMesh", kind, <<>>)
    IN  IF m_basicMeshes.ptr # "NULL" THEN Issue(call, <<>>) ELSE NullCall(call)

-----------------------------------------------------------------------------
(* The render routines: the calls each makes, in source order *)

Xf(scaleXYZ, x, y, z, positionXYZ) ==
    Call("SetTransformations", "", <<scaleXYZ, <<x, y, z>>, positionXYZ>>)
Col(rgba) == Call("SetShaderColor", "", <<rgba>>)
Tex(tag) == Call("SetShaderTexture", tag, <<>>)
Mat(tag) == Call("SetShaderMaterial", tag, <<>>)
UV(uv) == Call("SetTextureUVScale", "", <<uv>>)
Draw(kind) == Call("DrawMesh", kind, <<>>)

\* RenderDesktop with the texture calls made before the transform
RenderDesktopStateFirst ==
    << Tex("marble"),
       UV(<<100, 100>>),
       Tex("glass"),
       Xf(<<2000, 100, 3000>>, 0, -2500, 0, <<1000, -100, 0>>),
       Draw("Plane") >>

RenderDesktop ==
    << Xf(<<2000, 100, 3000>>, 0, -2500, 0, <<1000, -100, 0>>),
       Tex("marble"),
       UV(<<100, 100>>),
       Tex("glass"),
       Draw("Plane") >>

RenderLegoMan ==
    << Xf(<<175, 270, 150>>, 0, 0, 0, <<-20, 40, 0>>),
       Mat("cloth"),
       Tex("leg"),
       Draw("Box"),

       Xf(<<175, 270, 150>>, 0, 0, 0, <<-220, 40, 0>>),
       Mat("cloth"),
       Tex("leg"),
       Draw("Box"),

       Xf(<<420, 100, 170>>, 18000, 0, 0, <<-125, 205, 0>>),
       Mat("cloth"),
       Tex("leg"),
       Draw("Box"),

       Xf(<<225, 400, 125>>, 0, 18000, 0, <<-125, 250, 0>>),
       Mat("cloth"),
       Tex("body"),
       Draw("Cylinder"),

       Xf(<<225, 10, 125>>, 0, 0, 0, <<-125, 650, 0>>),
       Col(<<20, 20, 20, 100>>),
       Mat("plastic"),
       Draw("Cylinder"),

       Xf(<<50, 50, 50>>, 0, 0, 0, <<-125, 650, 0>>),
       Col(<<20, 20, 20, 100>>),
       Mat("plastic"),
       Draw("Cylinder"),

       Xf(<<150, 175, 150>>, 0, 0, 0, <<-125, 850, 0>>),
       Mat("cloth"),
       Tex("face"),
       Draw("Sphere"),

       Xf(<<50, 350, 50>>, 0, 18000, -1000, <<150, 300, 0>>),
       Tex("arm"),
       Draw("Cylinder"),

       Xf(<<50, 350, 50>>, -3000, 0, -1000, <<-400, 300, 170>>),
       Tex("arm"),
       Draw("Cylinder"),

       Xf(<<70, 70, 70>>, 0, 0, 0, <<160, 250, 0>>),
       Col(<<20, 20, 20, 100>>),
       Mat("plastic"),
       Draw("Sphere"),

       Xf(<<70, 70, 70>>, 0, 0, 0, <<-410, 250, 210>>),
       Col(<<20, 20, 20, 100>>),
       Draw("Sphere") >>

RenderSodaCan ==
    << Xf(<<350, 900, 350>>, 0, 0, 0, <<1000, -90, 1000>>),
       Col(<<100, 100, 0, 100>>),
       Mat("plastic"),
       Tex("can"),
       Draw("Cylinder"),

       Xf(<<350, 10, 350>>, 0, 0, 0, <<1000, 810, 1000>>),
       Col(<<70, 70, 70, 100>>),
       Mat("metal"),
       Draw("TaperedCylinder") >>

RenderHeadPhones ==
    << Xf(<<500, 1600, 700>>, 9000, -750, 25500, <<1000, 275, -300>>),
       Col(<<100, 100, 100, 100>>),
       Mat("matteFinish"),
       Draw("HalfTorus"),

       Xf(<<315, 315, 315>>, 0, 9000, 9000, <<900, 225, -25>>),
       Col(<<100, 100, 100, 100>>),
       Mat("matteFinish"),
       Draw("Cylinder"),

       Xf(<<315, 315, 315>>, 0, 11500, 9000, <<600, 225, -775>>),
       Col(<<100, 100, 100, 100>>),
       Mat("matteFinish"),
       Draw("Cylinder") >>

RenderLampBase ==
    << Xf(<<1500, 150, 1050>>, 0, 0, 0, <<775, 0, -1775>>),
       Col(<<10, 10, 20, 100>>),
       Mat("plastic"),
       Draw("Box"),

       Xf(<<450, 450, 825>>, 0, 0, 0, <<250, 150, -1890>>),
       Col(<<10, 10, 20, 100>>),
       Mat("plastic"),
       Draw("Box"),

       Xf(<<450, 450, 450>>, -9000, 0, 9000, <<250, 150, -1477>>),
       Col(<<10, 10, 20, 100>>),
       Mat("plastic"),
       Draw("Prism") >>

RenderScene ==
    RenderDesktop \o RenderLegoMan \o RenderSodaCan \o RenderHeadPhones \o RenderLampBase

\* one call of a render routine
Exec(c) ==
    CASE c.op = "SetTransformations" ->
            SetTransformations(c.args[1], c.args[2][1], c.args[2][2], c.args[2][3], c.args[3])
      [] c.op = "SetShaderColor" -> SetShaderColor(c.args[1])
      [] c.op = "SetShaderTexture" -> SetShaderTexture(c.tag)
      [] c.op = "SetShaderMaterial" -> SetShaderMaterial(c.tag)
      [] c.op = "SetTextureUVScale" -> SetTextureUVScale(c.args[1])
      [] c.op = "DrawMesh" -> DrawMesh(c.tag)

-----------------------------------------------------------------------------
(* PrepareScene, RenderScene and the destructor, as the application runs them *)

\* the LoadXMesh calls of PrepareScene, in order
PrepareMeshes ==
    <<"Box", "Plane", "Cylinder", "Cone", "Prism", "Pyramid4", "Sphere",
      "TaperedCylinder", "Torus">>

\* ShapeMeshes after the LoadXMesh calls for kinds, in order
RECURSIVE LoadMeshes(_, _)
LoadMeshes(meshes, kinds) ==
    IF kinds = <<>> THEN meshes
    ELSE LoadMeshes([meshes EXCEPT !.loads[Head(kinds)] = @ + 1], Tail(kinds))

PrepareSceneBegin ==
    /\ ~ub
    /\ pc = "Constructed"
    /\ pc' = "PrepareScene"
    /\ ip' = 1
    /\ ret' = Ret("PrepareScene", "", FALSE, 0)
    /\ UNCHANGED <<m_pShaderManager, m_basicMeshes, m_textureIDs, m_loadedTextures,
                   m_objectMaterials, gl, shader, frame, frameOps, prevFrameOps,
                   loadLog, ub>>

\* LoadSceneTextures: the six CreateGLTexture calls
LoadSceneTexture ==
    /\ ~ub
    /\ pc = "PrepareScene"
    /\ ip \in 1..Len(SceneTextures)
    /\ \E img \in Images : CreateGLTexture(img, SceneTextures[ip])
    /\ ip' = ip + 1
    /\ UNCHANGED <<m_pShaderManager, m_basicMeshes, m_objectMaterials, shader, pc, frame,
                   frameOps, prevFrameOps>>

\* LoadSceneTextures: the closing BindGLTextures
BindSceneTextures ==
    /\ ~ub
    /\ pc = "PrepareScene"
    /\ ip = Len(SceneTextures) + 1
    /\ BindGLTextures
    /\ ip' = ip + 1
    /\ ret' = Ret("BindGLTextures", "", FALSE, 0)
    /\ UNCHANGED <<m_pShaderManager, m_basicMeshes, m_textureIDs, m_loadedTextures,
                   m_objectMaterials, shader, pc, frame, frameOps, prevFrameOps,
                   loadLog, ub>>

DefineSceneMaterials ==
    /\ ~ub
    /\ pc = "PrepareScene"
    /\ ip = Len(SceneTextures) + 2
    /\ DefineObjectMaterials
    /\ ip' = ip + 1
    /\ ret' = Ret("DefineObjectMaterials", "", FALSE, 0)
    /\ UNCHANGED <<m_pShaderManager, m_basicMeshes, m_textureIDs, m_loadedTextures,
                   gl, shader, pc, frame, frameOps, prevFrameOps, loadLog, ub>>

\* m_pShaderManager->setBoolValue(...) and the 24 light setters, with no null check
SetupSceneLights ==
    /\ ~ub
    /\ pc = "PrepareScene"
    /\ ip = Len(SceneTextures) + 3
    /\ IF m_pShaderManager # "NULL"
       THEN /\ shader' = ApplyPushes(shader, LightPushes)
            /\ ub' = ub
       ELSE /\ shader' = shader
            /\ ub' = TRUE
    /\ ip' = ip + 1
    /\ ret' = Ret("SetupSceneLights", "", FALSE, 0)
    /\ UNCHANGED <<m_pShaderManager, m_basicMeshes, m_textureIDs, m_loadedTextures,
                   m_objectMaterials, gl, pc, frame, frameOps, prevFrameOps, loadLog>>

LoadSceneMeshes ==
    /\ ~ub
    /\ pc = "PrepareScene"
    /\ ip = Len(SceneTextures) + 4
    /\ m_basicMeshes' = LoadMeshes(m_basicMeshes, PrepareMeshes)
    /\ pc' = "Idle"
    /\ ip' = 0
    /\ ret' = Ret("LoadMeshes", "", FALSE, 0)
    /\ UNCHANGED <<m_pShaderManager, m_textureIDs, m_loadedTextures, m_objectMaterials,
                   gl, shader, frame, frameOps, prevFrameOps, loadLog, ub>>

RenderSceneBegin ==
    /\ ~ub
    /\ pc = "Idle"
    /\ frame < MaxFrames
    /\ pc' = "RenderScene"
    /\ ip' = 1
    /\ frame' = frame + 1
    /\ prevFrameOps' = frameOps
    /\ frameOps' = <<>>
    /\ ret' = Ret("RenderScene", "", FALSE, 0)
    /\ UNCHANGED <<m_pShaderManager, m_basicMeshes, m_textureIDs, m_loadedTextures,
                   m_objectMaterials, gl, shader, loadLog, ub>>

RenderStep ==
    /\ ~ub
    /\ pc = "RenderScene"
    /\ ip \in 1..Len(RenderScene)
    /\ Exec(RenderScene[ip])
    /\ IF ip < Len(RenderScene)
       THEN /\ ip' = ip + 1
            /\ pc' = pc
       ELSE /\ ip' = 0
            /\ pc' = "Idle"
    /\ UNCHANGED <<m_pShaderManager, m_basicMeshes, m_textureIDs, m_loadedTextures,
                   m_objectMaterials, gl, frame, prevFrameOps, loadLog, ret>>

\* ~SceneManager
Destructor ==
    /\ ~ub
    /\ pc \in {"Constructed", "Idle"}
    /\ m_pShaderManager' = "NULL"
    /\ m_basicMeshes' = IF m_basicMeshes.ptr # "NULL"
                        THEN [m_basicMeshes EXCEPT !.ptr = "NULL"]
                        ELSE m_basicMeshes
    /\ DestroyGLTextures
    /\ pc' = "Destroyed"
    /\ ret' = Ret("~SceneManager", "", FALSE, 0)
    /\ UNCHANGED <<m_loadedTextures, m_objectMaterials, shader, ip, frame, frameOps,
                   prevFrameOps, loadLog, ub>>

Next ==
    \/ PrepareSceneBegin
    \/ LoadSceneTexture
    \/ BindSceneTextures
    \/ DefineSceneMaterials
    \/ SetupSceneLights
    \/ LoadSceneMeshes
    \/ RenderSceneBegin
    \/ RenderStep
    \/ Destructor

Spec == Init /\ [][Next]_vars

-----------------------------------------------------------------------------
(* The texture registry under any order of calls on a constructed object *)

CallCreateGLTexture ==
    /\ ~ub
    /\ pc = "Constructed"
    /\ Len(loadLog) < MaxLoads
    /\ \E img \in Images, tag \in TextureTags : CreateGLTexture(img, tag)
    /\ UNCHANGED <<m_pShaderManager, m_basicMeshes, m_objectMaterials, shader, pc, ip,
                   frame, frameOps, prevFrameOps>>

CallFindTextureID ==
    /\ ~ub
    /\ pc = "Constructed"
    /\ \E tag \in TextureTags :
          ret' = Ret("FindTextureID", tag, FALSE, FindTextureID(tag))
    /\ UNCHANGED <<m_pShaderManager, m_basicMeshes, m_textureIDs, m_loadedTextures,
                   m_objectMaterials, gl, shader, pc, ip, frame, frameOps, prevFrameOps,
                   loadLog, ub>>

CallFindTextureSlot ==
    /\ ~ub
    /\ pc = "Constructed"
    /\ \E tag \in TextureTags :
          ret' = Ret("FindTextureSlot", tag, FALSE, FindTextureSlot(tag))
    /\ UNCHANGED <<m_pShaderManager, m_basicMeshes, m_textureIDs, m_loadedTextures,
                   m_objectMaterials, gl, shader, pc, ip, frame, frameOps, prevFrameOps,
                   loadLog, ub>>

TextureNext ==
    \/ CallCreateGLTexture
    \/ CallFindTextureID
    \/ CallFindTextureSlot

SpecTextures == Init /\ [][TextureNext]_vars

-----------------------------------------------------------------------------
(* The texture registry filled past its sixteen slots *)

FailedLoads == Cardinality({i \in 1..Len(loadLog) : ~loadLog[i].ok})

CallCreateGLTextureAgain ==
    /\ ~ub
    /\ pc = "Constructed"
    /\ \E img \in Images :
          /\ (img.ok /\ SupportedChannels(img.channels)) \/ FailedLoads < MaxBadLoads
          /\ CreateGLTexture(img, SceneTextures[1])
    /\ UNCHANGED <<m_pShaderManager, m_basicMeshes, m_objectMaterials, shader, pc, ip,
                   frame, frameOps, prevFrameOps>>

CapacityNext == CallCreateGLTextureAgain

SpecCapacity == Init /\ [][CapacityNext]_vars

-----------------------------------------------------------------------------
(* The material registry under any order of calls on a constructed object *)

CallDefineObjectMaterials ==
    /\ ~ub
    /\ pc = "Constructed"
    /\ Len(m_objectMaterials) < MaxDefines * Len(SceneMaterials)
    /\ DefineObjectMaterials
    /\ ret' = Ret("DefineObjectMaterials", "", FALSE, 0)
    /\ UNCHANGED <<m_pShaderManager, m_basicMeshes, m_textureIDs, m_loadedTextures, gl,
                   shader, pc, ip, frame, frameOps, prevFrameOps, loadLog, ub>>

\* the caller's OBJECT_MATERIAL holds caller before the call
CallFindMaterial ==
    /\ ~ub
    /\ pc = "Constructed"
    /\ \E tag \in MaterialTags, caller \in IndeterminateMaterials :
          LET found == FindMaterial(tag, caller)
          IN  ret' = [Ret("FindMaterial", tag, found.ret, 0)
                        EXCEPT !.material = found.material]
    /\ UNCHANGED <<m_pShaderManager, m_basicMeshes, m_textureIDs, m_loadedTextures,
                   m_objectMaterials, gl, shader, pc, ip, frame, frameOps, prevFrameOps,
                   loadLog, ub>>

CallSetShaderMaterial ==
    /\ ~ub
    /\ pc = "Constructed"
    /\ Len(frameOps) < MaxShaderCalls
    /\ \E tag \in MaterialTags : SetShaderMaterial(tag)
    /\ ret' = Ret("SetShaderMaterial", "", FALSE, 0)
    /\ UNCHANGED <<m_pShaderManager, m_basicMeshes, m_textureIDs, m_loadedTextures,
                   m_objectMaterials, gl, pc, ip, frame, prevFrameOps, loadLog>>

MaterialNext ==
    \/ CallDefineObjectMaterials
    \/ CallFindMaterial
    \/ CallSetShaderMaterial

SpecMaterials == Init /\ [][MaterialNext]_vars

-----------------------------------------------------------------------------
(* SetTransformations under any arguments on a constructed object *)

CallSetTransformations ==
    /\ ~ub
    /\ pc = "Constructed"
    /\ Len(frameOps) < MaxTransforms
    /\ \E scaleXYZ \in Scales, x \in RightAngles, y \in RightAngles, z \in RightAngles,
          positionXYZ \in Positions :
            SetTransformations(scaleXYZ, x, y, z, positionXYZ)
    /\ ret' = Ret("SetTransformations", "", FALSE, 0)
    /\ UNCHANGED <<m_pShaderManager, m_basicMeshes, m_textureIDs, m_loadedTextures,
                   m_objectMaterials, gl, pc, ip, frame, prevFrameOps, loadLog>>

TransformNext == CallSetTransformations

SpecTransform == Init /\ [][TransformNext]_vars

-----------------------------------------------------------------------------
(* Properties *)

\* the successful loads, in call order
OkLoads == SelectSeq(loadLog, LAMBDA e : e.ok)

\* the first successful load that carries tag
FirstLoadOf(tag) ==
    OkLoads[CHOOSE k \in 1..Len(OkLoads) :
                /\ OkLoads[k].tag = tag
                /\ \A j \in 1..(k - 1) : OkLoads[j].tag # tag]

LastOp == frameOps[Len(frameOps)]

C2_FailedLoadKeepsRegistry ==
    [][ (ret'.op = "CreateGLTexture" /\ Len(loadLog') = Len(loadLog) + 1) =>
            /\ (~ret'.img.ok \/ ret'.img.channels \notin {3, 4}) => ~ret'.ok
            /\ ~ret'.ok => (m_loadedTextures' = m_loadedTextures /\ m_textureIDs' = m_textureIDs)
      ]_vars

\* C2 witness: a two-channel image was refused after another load had succeeded
C2_Witness ==
    /\ ret.op = "CreateGLTexture" /\ ~ret.ok
    /\ ret.img.ok /\ ret.img.channels = 2
    /\ m_loadedTextures = 1

\* C3, as claimed: FindMaterial of a defined tag reports found and gives the
\* stored values of that material; FindMaterial of a tag never defined reports
\* not-found, whether or not the registry holds other materials.
C3_FindMaterialReportsMiss ==
    ret.op = "FindMaterial" =>
        LET defined == {i \in 1..Len(m_objectMaterials) : m_objectMaterials[i].tag = ret.tag}
        IN  IF defined # {}
            THEN LET stored == m_objectMaterials[CHOOSE i \in defined : \A j \in defined : i <= j]
                 IN  /\ ret.ok
                     /\ ret.material.ambientColor = stored.ambientColor
                     /\ ret.material.ambientStrength = stored.ambientStrength
                     /\ ret.material.diffuseColor = stored.diffuseColor
                     /\ ret.material.specularColor = stored.specularColor
                     /\ ret.material.shininess = stored.shininess
            ELSE ~ret.ok

\* C4, as claimed: every tag RenderScene passes to SetShaderTexture is one of
\* the six tags LoadSceneTextures registers, and when all six loads succeeded no
\* mesh is drawn with the sampler objectTexture set to -1.
C4_RenderTagsRegistered ==
    /\ \A j \in 1..Len(frameOps) :
          frameOps[j].call.op = "SetShaderTexture" =>
              frameOps[j].call.tag \in {SceneTextures[i] : i \in 1..Len(SceneTextures)}
    /\ (frameOps # <<>> /\ LastOp.call.op = "DrawMesh" /\ Len(OkLoads) = Len(SceneTextures))
          => shader["objectTexture"].int # -1

\* C5: in every frame, between a mesh draw and the draw before it (or the
\* start of the frame) there is a SetTransformations call and, after it, a
\* SetShaderMaterial, SetShaderTexture or SetShaderColor call.
DrawCalls == {d \in 1..Len(frameOps) : frameOps[d].call.op = "DrawMesh"}

C5_DrawFollowsTransformThenState ==
    \A d \in DrawCalls :
        LET before == {0} \cup {i \in DrawCalls : i < d}
            prev == CHOOSE i \in before : \A j \in before : j <= i
        IN  \E t \in (prev + 1)..(d - 1) :
                /\ frameOps[t].call.op = "SetTransformations"
                /\ \E u \in (t + 1)..(d - 1) :
                      frameOps[u].call.op \in
                          {"SetShaderMaterial", "SetShaderTexture", "SetShaderColor"}

\* C5 witness: a whole frame was rendered, with its twenty-one draws
C5_Witness ==
    /\ pc = "Idle" /\ frame = 1
    /\ Cardinality(DrawCalls) = Cardinality({i \in 1..Len(RenderScene) : RenderScene[i].op = "DrawMesh"})
    /\ DrawCalls # {}

C7_SecondFrameRepeatsFirst ==
    frame >= 2 =>
        /\ Len(frameOps) <= Len(prevFrameOps)
        /\ frameOps = SubSeq(prevFrameOps, 1, Len(frameOps))
        /\ pc = "Idle" => frameOps = prevFrameOps

\* C7 witness: the second RenderScene has returned
C7_Witness ==
    /\ pc = "Idle" /\ frame = 2
    /\ Len(frameOps) = Len(RenderScene)
    /\ \E j \in 1..Len(frameOps) : frameOps[j].pushes # <<>>

\* C8, as claimed: the destructor's teardown releases the handle of every
\* successful load and generates no new texture handle.
C8_TeardownReleasesHandles ==
    [][ (pc' = "Destroyed" /\ pc # "Destroyed") =>
            /\ \A i \in 1..Len(loadLog) : loadLog[i].ok => loadLog[i].ID \in gl'.deleted
            /\ gl'.generated = gl.generated
      ]_vars

\* C9, as claimed: after any sequence of loads m_loadedTextures is in 0..16 and
\* every slot a load wrote is in 0..15.
C9_WithinSixteenSlots ==
    /\ m_loadedTextures \in 0..TextureSlots
    /\ \A i \in 1..Len(loadLog) :
          loadLog[i].slot # -1 => loadLog[i].slot \in 0..(TextureSlots - 1)

\* C10: a tag whose load failed in LoadSceneTextures is in no registered slot,
\* FindTextureSlot and FindTextureID return -1 for it, and every later
\* SetShaderTexture of it sets bUseTexture and sets the sampler objectTexture
\* to -1, the program going on.
C10_FailedLoadBindsMinusOne ==
    \A i \in 1..Len(loadLog) :
        ~loadLog[i].ok =>
            LET t == loadLog[i].tag
            IN  /\ \A slot \in 0..(m_loadedTextures - 1) : m_textureIDs[slot].tag # t
                /\ FindTextureSlot(t) = -1
                /\ FindTextureID(t) = -1
                /\ \A j \in 1..Len(frameOps) :
                      frameOps[j].call = Tex(t) =>
                          frameOps[j].pushes =
                              << SetInt("bUseTexture", 1), SetSampler2D("objectTexture", -1) >>
                /\ (frameOps # <<>> /\ LastOp.call = Tex(t)) =>
                      /\ ~ub
                      /\ shader["bUseTexture"].int = 1
                      /\ shader["objectTexture"].int = -1

\* C10 witness: the load of "can" failed and RenderSodaCan has just called
\* SetShaderTexture("can")
C10_Witness ==
    /\ \E i \in 1..Len(loadLog) : loadLog[i].tag = "can" /\ ~loadLog[i].ok
    /\ frameOps # <<>>
    /\ LastOp.call = Tex("can")
    /\ shader["objectTexture"].int = -1

\* points whose images pin down an affine map: the origin and the unit axes
Probes == { <<0, 0, 0>>, <<100, 0, 0>>, <<0, 100, 0>>, <<0, 0, 100>> }

\* the image of point p under a matrix value m
Apply4(m, p) ==
    LET e(i) == (m[i][1] * p[1] + m[i][2] * p[2] + m[i][3] * p[3] + m[i][4] * 100) \div 100
    IN  << e(1), e(2), e(3) >>

\* scaling, turning about an axis and moving a point, by the textbook formulas
ScalePoint(s, p) == << (s[1] * p[1]) \div 100, (s[2] * p[2]) \div 100, (s[3] * p[3]) \div 100 >>
RotateXPoint(degrees, p) ==
    << p[1],
       (Cos100(degrees) * p[2] - Sin100(degrees) * p[3]) \div 100,
       (Sin100(degrees) * p[2] + Cos100(degrees) * p[3]) \div 100 >>
RotateYPoint(degrees, p) ==
    << (Cos100(degrees) * p[1] + Sin100(degrees) * p[3]) \div 100,
       p[2],
       (Cos100(degrees) * p[3] - Sin100(degrees) * p[1]) \div 100 >>
RotateZPoint(degrees, p) ==
    << (Cos100(degrees) * p[1] - Sin100(degrees) * p[2]) \div 100,
       (Sin100(degrees) * p[1] + Cos100(degrees) * p[2]) \div 100,
       p[3] >>
TranslatePoint(t, p) == << p[1] + t[1], p[2] + t[2], p[3] + t[3] >>

\* the last call was a SetTransformations that reached the shader
TransformPushed ==
    /\ frameOps # <<>>
    /\ LastOp.call.op = "SetTransformations"
    /\ LastOp.pushes # <<>>

\* C11: the matrix SetTransformations pushes as "model" is the product
\* Translate(t) * RotateX(rx) * RotateY(ry) * RotateZ(rz) * Scale(s) in that
\* order: it is built from those five factors in that order, and it maps every
\* point p to t + Rx(Ry(Rz(s.p))).
C11_ModelIsTranslateRotateScale ==
    (frameOps # <<>> /\ LastOp.call.op = "SetTransformations" /\ m_pShaderManager # "NULL") =>
        LET a == LastOp.call.args
            pushed == shader["model"].mat
            m == MatValue(pushed)
        IN  /\ LastOp.pushes = << SetMat4("model", pushed) >>
            /\ pushed = << [k |-> "translate", v |-> a[3]],
                           [k |-> "rotate", v |-> <<a[2][1], 100, 0, 0>>],
                           [k |-> "rotate", v |-> <<a[2][2], 0, 100, 0>>],
                           [k |-> "rotate", v |-> <<a[2][3], 0, 0, 100>>],
                           [k |-> "scale", v |-> a[1]] >>
            /\ m[4] = <<0, 0, 0, 100>>
            /\ \A p \in Probes :
                  Apply4(m, p) =
                      TranslatePoint(a[3],
                          RotateXPoint(a[2][1],
                              RotateYPoint(a[2][2],
                                  RotateZPoint(a[2][3], ScalePoint(a[1], p)))))

\* C11 witness: a call with an uneven scale, two quarter turns and a move
\* reached the shader
C11_Witness ==
    /\ TransformPushed
    /\ LastOp.call.args = << <<200, 50, 100>>, <<9000, 0, 9000>>, <<1000, -100, 300>> >>
    /\ MatValue(shader["model"].mat) # Identity4

\* the model matrix with the three axis rotations multiplied in the order o
\* (1 is X, 2 is Y, 3 is Z), for the arguments a of a SetTransformations call
ModelInOrder(a, o) ==
    LET rotation == << GlmRotate(a[2][1], <<100, 0, 0>>),
                       GlmRotate(a[2][2], <<0, 100, 0>>),
                       GlmRotate(a[2][3], <<0, 0, 100>>) >>
    IN  MatValue(GlmTranslate(a[3]) \o rotation[o[1]] \o rotation[o[2]] \o rotation[o[3]]
                    \o GlmScale(a[1]))

\* the five orders other than X, Y, Z
OtherOrders ==
    { <<1, 3, 2>>, <<2, 1, 3>>, <<2, 3, 1>>, <<3, 1, 2>>, <<3, 2, 1>> }

NonZeroAngles(a) == { i \in 1..3 : a[2][i] % 36000 # 0 }

QuarterTurns(a) == { i \in 1..3 : a[2][i] % 18000 # 0 }

\* no component of the scale is zero
NonDegenerate(a) == \A i \in 1..3 : a[1][i] # 0

PrevDraw(d) ==
    LET before == {0} \cup {i \in DrawCalls : i < d}
    IN  CHOOSE i \in before : \A j \in before : j <= i

\* C13, as claimed: in every frame, between a mesh draw and the draw before
\* it (or the start of the frame) there is a SetShaderMaterial call and a
\* SetShaderColor or SetShaderTexture call, so no draw uses material or
\* color/texture state left by an earlier sub-part or frame.
C13_DrawStateSetInOwnStep ==
    \A d \in DrawCalls :
        /\ \E u \in (PrevDraw(d) + 1)..(d - 1) : frameOps[u].call.op = "SetShaderMaterial"
        /\ \E u \in (PrevDraw(d) + 1)..(d - 1) :
              frameOps[u].call.op \in {"SetShaderColor", "SetShaderTexture"}

\* the SetShaderColor and SetShaderTexture calls among ops
ModeCalls(ops) ==
    {i \in 1..Len(ops) : ops[i].call.op \in {"SetShaderColor", "SetShaderTexture"}}

\* C14: with a non-null shader manager, bUseTexture is 1 exactly when the most
\* recent SetShaderColor / SetShaderTexture call was SetShaderTexture (0 before
\* any such call): every SetShaderColor sets it to 0 first, every
\* SetShaderTexture sets it to 1 first, and no other call pushes it.
C14_TextureModeFollowsLastCall ==
    m_pShaderManager # "NULL" =>
        LET hist == prevFrameOps \o frameOps
            calls == ModeCalls(hist)
        IN  /\ IF calls = {}
               THEN shader["bUseTexture"].int = 0
               ELSE LET last == CHOOSE i \in calls : \A j \in calls : j <= i
                    IN  shader["bUseTexture"].int =
                            IF hist[last].call.op = "SetShaderTexture" THEN 1 ELSE 0
            /\ \A j \in 1..Len(frameOps) :
                  LET op == frameOps[j].call.op
                      pushes == frameOps[j].pushes
                  IN  /\ op = "SetShaderColor" => pushes[1] = SetInt("bUseTexture", 0)
                      /\ op = "SetShaderTexture" => pushes[1] = SetInt("bUseTexture", 1)
                      /\ op \notin {"SetShaderColor", "SetShaderTexture"} =>
                            \A k \in 1..Len(pushes) : pushes[k].name # "bUseTexture"

\* C14 witness: the soda can body is drawn after SetShaderColor,
\* SetShaderMaterial and SetShaderTexture("can"), in texture mode
C14_Witness ==
    /\ Len(frameOps) >= 5
    /\ LastOp.call = Draw("Cylinder")
    /\ frameOps[Len(frameOps) - 1].call = Tex("can")
    /\ frameOps[Len(frameOps) - 3].call.op = "SetShaderColor"
    /\ shader["bUseTexture"].int = 1

\* C15: once LoadSceneTextures has returned, and at every call of every later
\* frame, texture unit i holds the handle stored at registry slot i, which is
\* the handle of the (i+1)-th successful load, for every i below
\* m_loadedTextures.
C15_UnitsHoldRegisteredHandles ==
    (pc \in {"Idle", "RenderScene"} \/ (pc = "PrepareScene" /\ ip > Len(SceneTextures) + 1)) =>
        /\ m_loadedTextures = Len(OkLoads)
        /\ \A i \in 0..(m_loadedTextures - 1) :
              /\ gl.units[i] = m_textureIDs[i].ID
              /\ m_textureIDs[i].ID = OkLoads[i + 1].ID

\* C15 witness: a draw of the second frame, five textures registered after one
\* load was refused for its channel count
C15_Witness ==
    /\ pc = "RenderScene" /\ frame = 2
    /\ frameOps # <<>> /\ LastOp.call.op = "DrawMesh"
    /\ m_loadedTextures = 5
    /\ gl.generated = 6
    /\ gl.units[4] = m_textureIDs[4].ID

\* the five material uniforms
MaterialUniforms ==
    {"material.ambientColor", "material.ambientStrength", "material.diffuseColor",
     "material.specularColor", "material.shininess"}

\* C16, as claimed: a SetShaderMaterial call whose tag is not in the material
\* registry pushes none of the five material uniforms, whether the registry is
\* empty or not.
C16_UnknownTagPushesNothing ==
    (/\ frameOps # <<>>
     /\ LastOp.call.op = "SetShaderMaterial"
     /\ \A i \in 1..Len(m_objectMaterials) : m_objectMaterials[i].tag # LastOp.call.tag) =>
        \A k \in 1..Len(LastOp.pushes) : LastOp.pushes[k].name \notin MaterialUniforms

\* the handles held by the registry
RegisteredHandles == {m_textureIDs[i].ID : i \in 0..(m_loadedTextures - 1)}

\* C17, as claimed: when a CreateGLTexture call has returned, every handle
\* generated so far is in the registry or was deleted, no decoded image buffer
\* is still allocated, and no texture is bound to the 2D target of the active
\* unit.
C17_LoadAccountsForResources ==
    ret.op = "CreateGLTexture" =>
        /\ \A h \in 1..gl.generated : h \in RegisteredHandles \/ h \in gl.deleted
        /\ gl.images = 0
        /\ gl.units[gl.activeUnit] = 0

====
